---- MODULE Spec2Model ----
(***************************************************************************)
(* Model of program_09.py: the data-quality pipeline over a daily record   *)
(* set (Precip, Max Temp, Min Temp, Wind Speed) and the ledger of          *)
(* replaced-value counts (ReplacedValuesDF).                               *)
(*                                                                         *)
(* A cell of the data frame is either NaN (the empty tuple) or Num(v),     *)
(* a one-element tuple holding the number v.  Numbers are integers: the    *)
(* checks only compare with <, > and subtract, so one unit stands for the  *)
(* smallest step around a threshold (26 for "25.0001", -1 for "-0.0001").  *)
(* Every comparison with NaN is FALSE, as in NumPy/pandas.                 *)
(***************************************************************************)
EXTENDS Integers, Sequences, FiniteSets

VARIABLES DataDF, ReplacedValuesDF, pc, histDF, histRV

vars == <<DataDF, ReplacedValuesDF, pc, histDF, histRV>>

\* ------------------------------------------------------------------------
\* Bounds of the model
\* ------------------------------------------------------------------------
MaxRecs == 2

\* ------------------------------------------------------------------------
\* Cells, NaN and NaN-propagating comparisons
\* ------------------------------------------------------------------------
NaN == <<>>

Num(v) == <<v>>

Val(x) == x[1]

IsNa(x) == x = NaN

\* Series < Series / Series < scalar: False whenever an operand is NaN
Lt(a, b) == ~IsNa(a) /\ ~IsNa(b) /\ Val(a) < Val(b)

Gt(a, b) == ~IsNa(a) /\ ~IsNa(b) /\ Val(a) > Val(b)

\* Series - Series: NaN whenever an operand is NaN
Sub(a, b) == IF IsNa(a) \/ IsNa(b) THEN NaN ELSE Num(Val(a) - Val(b))

\* ------------------------------------------------------------------------
\* Labels of the two frames (ReadData)
\* ------------------------------------------------------------------------
colNames == <<"Precip", "Max Temp", "Min Temp", "Wind Speed">>

rowNames == <<"1. No Data", "2. Gross Error", "3. Swapped", "4. Range Fail">>

Cols == {colNames[k] : k \in 1..Len(colNames)}

Rows == {rowNames[k] : k \in 1..Len(rowNames)}

\* ReplacedValuesDF.iloc[r, c] = v   (positions are 0-based)
ILocSet(rv, r, c, v) == [rv EXCEPT ![rowNames[r + 1]][colNames[c + 1]] = v]

\* index.sum() for a boolean series
IndexSum(index) == Cardinality({i \in DOMAIN index : index[i]})

\* DataDF[col][index] = value
SetWhere(df, col, index, value) ==
    [i \in DOMAIN df |-> IF index[i] THEN [df[i] EXCEPT ![col] = value] ELSE df[i]]

\* DataDF[col][index] = series  (values taken from the aligned series)
SetWhereSeries(df, col, index, series) ==
    [i \in DOMAIN df |-> IF index[i] THEN [df[i] EXCEPT ![col] = series[i]] ELSE df[i]]

\* DataDF[col]
Column(df, col) == [i \in DOMAIN df |-> df[i][col]]

\* ------------------------------------------------------------------------
\* ReadData: the raw record sets the file can hold, and the zero ledger
\* ------------------------------------------------------------------------
PrecipVals == {NaN, Num(-999), Num(-1), Num(0), Num(25), Num(26)}

TempVals == {NaN, Num(-999), Num(-26), Num(-25), Num(10), Num(35), Num(36)}

WindVals == {NaN, Num(-999), Num(-1), Num(0), Num(10), Num(11)}

Line(p, tx, tn, w) ==
    [c \in Cols |-> CASE c = "Precip" -> p
                      [] c = "Max Temp" -> tx
                      [] c = "Min Temp" -> tn
                      [] c = "Wind Speed" -> w]

\* The lines a file is made of: every pair of temperatures beside ordinary
\* precipitation and wind, every precipitation and every wind speed beside
\* ordinary temperatures, and lines where several columns are off at once.
Lines ==
    {Line(Num(0), tx, tn, Num(10)) : tx \in TempVals, tn \in TempVals}
    \cup {Line(p, Num(10), Num(10), Num(0)) : p \in PrecipVals}
    \cup {Line(Num(25), Num(10), Num(10), w) : w \in WindVals}
    \cup {Line(Num(-999), Num(10), Num(35), Num(10)),
          Line(Num(-999), Num(-999), Num(-999), Num(-999)),
          Line(Num(26), Num(-25), Num(35), Num(11))}

RawFrames == UNION {[1..n -> Lines] : n \in 1..MaxRecs}

ZeroLedger == [r \in Rows |-> [c \in Cols |-> 0]]

\* ------------------------------------------------------------------------
\* The four checks: each maps <<DataDF, ReplacedValuesDF>> to the pair it
\* returns.
\* ------------------------------------------------------------------------

\* Variant: the statements after the first return are executed, so the
\* "1. No Data" row receives isna().sum() of every column.
Check01_Counting(df, rv) ==
    LET df1 == [i \in DOMAIN df |->
                  [c \in Cols |-> IF df[i][c] = Num(-999) THEN NaN ELSE df[i][c]]]
        rv1 == [rv EXCEPT !["1. No Data"] =
                  [c \in Cols |-> Cardinality({i \in DOMAIN df1 : IsNa(df1[i][c])})]]
    IN  <<df1, rv1>>

\* DataDF[DataDF==-999]=np.nan, then the first return: the ledger is handed
\* back as it came in.
Check01_RemoveNoDataValues(df, rv) ==
    LET df1 == [i \in DOMAIN df |->
                  [c \in Cols |-> IF df[i][c] = Num(-999) THEN NaN ELSE df[i][c]]]
    IN  <<df1, rv>>

\* Variant: the bounds themselves are rejected (<= and >=).
GrossColumn_Exclusive(s, c, lo, hi) ==
    LET col   == colNames[c + 1]
        step  == [x \in {s} |->
                    LET index == [i \in DOMAIN x[1] |->
                                   \/ Lt(x[1][i][col], Num(lo + 1))
                                   \/ Gt(x[1][i][col], Num(hi - 1))]
                    IN  <<SetWhere(x[1], col, index, NaN),
                          ILocSet(x[2], 1, c, IndexSum(index))>>]
    IN  step[s]

\* One column of Check 2, applied to the pair s = <<DataDF, ReplacedValuesDF>>:
\*   index = (col < lo) | (col > hi)
\*   ReplacedValuesDF.iloc[1,c] = index.sum()
\*   col[index] = np.nan
\* (the one-point function makes the pair s be evaluated once)
GrossColumn(s, c, lo, hi) ==
    LET col   == colNames[c + 1]
        step  == [x \in {s} |->
                    LET index == [i \in DOMAIN x[1] |->
                                   \/ Lt(x[1][i][col], Num(lo))
                                   \/ Gt(x[1][i][col], Num(hi))]
                    IN  <<SetWhere(x[1], col, index, NaN),
                          ILocSet(x[2], 1, c, IndexSum(index))>>]
    IN  step[s]

\* Variant: the temperature loop is range(1,2), so Min Temp is never filtered.
Check02_ShortLoop(df, rv) ==
    GrossColumn(GrossColumn(GrossColumn(<<df, rv>>, 0, 0, 25), 1, -25, 35), 3, 0, 10)

\* Precip, then for i in range(1,3) the two temperatures, then Wind Speed
Check02_GrossErrors(df, rv) ==
    GrossColumn(GrossColumn(GrossColumn(GrossColumn(<<df, rv>>, 0, 0, 25),
                                        1, -25, 35), 2, -25, 35), 3, 0, 10)

\* Variant: the two columns are assigned one after the other, the second
\* assignment reading the Max Temp the first one has just overwritten.
Check03_Sequential(df, rv) ==
    LET index == [i \in DOMAIN df |-> Lt(df[i]["Max Temp"], df[i]["Min Temp"])]
        rv1   == ILocSet(rv, 2, 1, IndexSum(index))
        rv2   == ILocSet(rv1, 2, 2, IndexSum(index))
        df1   == SetWhereSeries(df, "Max Temp", index, Column(df, "Min Temp"))
        df2   == SetWhereSeries(df1, "Min Temp", index, Column(df1, "Max Temp"))
    IN  <<df2, rv2>>

\* Variant: index = ~(Max Temp >= Min Temp), which is True where a
\* temperature is NaN.
Check03_NotGe(df, rv) ==
    LET index == [i \in DOMAIN df |->
                    ~(\/ Gt(df[i]["Max Temp"], df[i]["Min Temp"])
                      \/ (/\ ~IsNa(df[i]["Max Temp"])
                          /\ df[i]["Max Temp"] = df[i]["Min Temp"]))]
        rv1   == ILocSet(rv, 2, 1, IndexSum(index))
        rv2   == ILocSet(rv1, 2, 2, IndexSum(index))
        rhsMin == Column(df, "Min Temp")
        rhsMax == Column(df, "Max Temp")
        df1   == SetWhereSeries(df, "Max Temp", index, rhsMin)
        df2   == SetWhereSeries(df1, "Min Temp", index, rhsMax)
    IN  <<df2, rv2>>

Check03_TmaxTminSwapped(df, rv) ==
    LET index == [i \in DOMAIN df |-> Lt(df[i]["Max Temp"], df[i]["Min Temp"])]
        rv1   == ILocSet(rv, 2, 1, IndexSum(index))
        rv2   == ILocSet(rv1, 2, 2, IndexSum(index))
        \* the right-hand side is evaluated before either assignment
        rhsMin == Column(df, "Min Temp")
        rhsMax == Column(df, "Max Temp")
        df1   == SetWhereSeries(df, "Max Temp", index, rhsMin)
        df2   == SetWhereSeries(df1, "Min Temp", index, rhsMax)
    IN  <<df2, rv2>>

\* Variant: the spread test is >= 25.
Check04_Inclusive(df, rv) ==
    LET index == [i \in DOMAIN df |->
                    Gt(Sub(df[i]["Max Temp"], df[i]["Min Temp"]), Num(24))]
        rv1   == ILocSet(rv, 3, 1, IndexSum(index))
        rv2   == ILocSet(rv1, 3, 2, IndexSum(index))
        df1   == SetWhere(df, "Max Temp", index, NaN)
        df2   == SetWhere(df1, "Min Temp", index, NaN)
    IN  <<df2, rv2>>

\* Variant: the counts go to iloc[2,...], the row of Check 3.
Check04_WrongRow(df, rv) ==
    LET index == [i \in DOMAIN df |->
                    Gt(Sub(df[i]["Max Temp"], df[i]["Min Temp"]), Num(25))]
        rv1   == ILocSet(rv, 2, 1, IndexSum(index))
        rv2   == ILocSet(rv1, 2, 2, IndexSum(index))
        df1   == SetWhere(df, "Max Temp", index, NaN)
        df2   == SetWhere(df1, "Min Temp", index, NaN)
    IN  <<df2, rv2>>

\* Variant: the spread is taken as Min Temp - Max Temp.
Check04_Reversed(df, rv) ==
    LET index == [i \in DOMAIN df |->
                    Gt(Sub(df[i]["Min Temp"], df[i]["Max Temp"]), Num(25))]
        rv1   == ILocSet(rv, 3, 1, IndexSum(index))
        rv2   == ILocSet(rv1, 3, 2, IndexSum(index))
        df1   == SetWhere(df, "Max Temp", index, NaN)
        df2   == SetWhere(df1, "Min Temp", index, NaN)
    IN  <<df2, rv2>>

Check04_TmaxTminRange(df, rv) ==
    LET index == [i \in DOMAIN df |->
                    Gt(Sub(df[i]["Max Temp"], df[i]["Min Temp"]), Num(25))]
        rv1   == ILocSet(rv, 3, 1, IndexSum(index))
        rv2   == ILocSet(rv1, 3, 2, IndexSum(index))
        df1   == SetWhere(df, "Max Temp", index, NaN)
        df2   == SetWhere(df1, "Min Temp", index, NaN)
    IN  <<df2, rv2>>

\* ------------------------------------------------------------------------
\* State machine
\* ------------------------------------------------------------------------
\* DataDF, ReplacedValuesDF = CheckNN(DataDF, ReplacedValuesDF); histDF and
\* histRV record the successive values of the two frames.
Thread(result, nextpc) ==
    \E res \in {result} :
        /\ DataDF' = res[1]
        /\ ReplacedValuesDF' = res[2]
        /\ histDF' = Append(histDF, res[1])
        /\ histRV' = Append(histRV, res[2])
        /\ pc' = nextpc

\* The state after ReadData returned
Loaded ==
    /\ DataDF \in RawFrames
    /\ ReplacedValuesDF = ZeroLedger
    /\ histDF = <<DataDF>>
    /\ histRV = <<ReplacedValuesDF>>

Init == Loaded /\ pc = "read"

Main01 ==
    /\ pc = "read"
    /\ Thread(Check01_RemoveNoDataValues(DataDF, ReplacedValuesDF), "check01")

Main02 ==
    /\ pc = "check01"
    /\ Thread(Check02_GrossErrors(DataDF, ReplacedValuesDF), "check02")

Main03 ==
    /\ pc = "check02"
    /\ Thread(Check03_TmaxTminSwapped(DataDF, ReplacedValuesDF), "check03")

Main04 ==
    /\ pc = "check03"
    /\ Thread(Check04_TmaxTminRange(DataDF, ReplacedValuesDF), "check04")

Next == Main01 \/ Main02 \/ Main03 \/ Main04

Spec == Init /\ [][Next]_vars

\* Each check as a function of an arbitrary record set, and Check 1 applied a
\* second time to its own result.
InitUnit == Loaded /\ pc = "unit"

Unit01 ==
    /\ pc = "unit"
    /\ Thread(Check01_RemoveNoDataValues(DataDF, ReplacedValuesDF), "unit01")

Unit02 ==
    /\ pc = "unit"
    /\ Thread(Check02_GrossErrors(DataDF, ReplacedValuesDF), "unit02")

Unit03 ==
    /\ pc = "unit"
    /\ Thread(Check03_TmaxTminSwapped(DataDF, ReplacedValuesDF), "unit03")

Unit04 ==
    /\ pc = "unit"
    /\ Thread(Check04_TmaxTminRange(DataDF, ReplacedValuesDF), "unit04")

Again01 ==
    /\ pc = "unit01"
    /\ Thread(Check01_RemoveNoDataValues(DataDF, ReplacedValuesDF), "again01")

NextUnit == Unit01 \/ Unit02 \/ Unit03 \/ Unit04 \/ Again01

SpecUnit == InitUnit /\ [][NextUnit]_vars

TypeOK ==
    /\ Len(DataDF) \in 1..MaxRecs
    /\ \A i \in DOMAIN DataDF : \A c \in Cols :
          IsNa(DataDF[i][c]) \/ Val(DataDF[i][c]) \in -999..36
    /\ \A r \in Rows : \A c \in Cols : ReplacedValuesDF[r][c] \in 0..Len(DataDF)
    /\ Len(histDF) = Len(histRV)
    /\ histDF[Len(histDF)] = DataDF
    /\ histRV[Len(histRV)] = ReplacedValuesDF

\* ------------------------------------------------------------------------
\* Vocabulary of the properties
\* ------------------------------------------------------------------------
Temps == {"Max Temp", "Min Temp"}

OtherTemp(t) == IF t = "Max Temp" THEN "Min Temp" ELSE "Max Temp"

RangeLo(c) == IF c \in Temps THEN -25 ELSE 0

RangeHi(c) == CASE c = "Precip" -> 25 [] c \in Temps -> 35 [] c = "Wind Speed" -> 10

Present(x) == x # NaN

InRange(c, x) == Present(x) /\ RangeLo(c) <= x[1] /\ x[1] <= RangeHi(c)

OutOfRange(c, x) == Present(x) /\ (x[1] < RangeLo(c) \/ x[1] > RangeHi(c))

BothTemps(rec) == Present(rec["Max Temp"]) /\ Present(rec["Min Temp"])

Spread(rec) == rec["Max Temp"][1] - rec["Min Temp"][1]

\* the records of df in which column c satisfies P
Where(df, c, P(_)) == {i \in DOMAIN df : P(df[i][c])}

IsSentinel(x) == x = Num(-999)

\* the cells that differ between two record sets of the same length
Changed(pre, post) == {ic \in (DOMAIN pre) \X Cols : pre[ic[1]][ic[2]] # post[ic[1]][ic[2]]}

\* the cells column c lost between pre and post
Lost(pre, post, c) == {i \in DOMAIN pre : Present(pre[i][c]) /\ ~Present(post[i][c])}

RowSum(row) == row["Precip"] + row["Max Temp"] + row["Min Temp"] + row["Wind Speed"]

Missing(df, c) == Cardinality({i \in DOMAIN df : ~Present(df[i][c])})

\* ------------------------------------------------------------------------
\* C1: after Check 1 on a raw record set and a zero ledger, every cell of
\* row "1. No Data" equals the number of -999 values its column held before
\* the check, and each of those values is now missing.
\* ------------------------------------------------------------------------
C1_NoDataCounts ==
    pc = "check01" =>
        \A c \in Cols :
            /\ ReplacedValuesDF["1. No Data"][c]
                 = Cardinality(Where(histDF[1], c, IsSentinel))
            /\ \A i \in Where(histDF[1], c, IsSentinel) : DataDF[i][c] = NaN

\* ------------------------------------------------------------------------
\* C2: Check 2 replaces a non-missing value with missing exactly when it
\* lies strictly outside the range of its variable, keeps every other cell
\* (values at a bound included), and writes into row "2. Gross Error" the
\* number of values it replaced in each column, not counting what was
\* missing on entry.
\* ------------------------------------------------------------------------
C2_GrossErrors ==
    pc = "unit02" =>
        LET pre == histDF[1]
        IN  /\ DOMAIN DataDF = DOMAIN pre
            /\ \A i \in DOMAIN pre : \A c \in Cols :
                  /\ (Present(pre[i][c]) /\ ~Present(DataDF[i][c]))
                        <=> OutOfRange(c, pre[i][c])
                  /\ ~OutOfRange(c, pre[i][c]) => DataDF[i][c] = pre[i][c]
                  /\ (Present(pre[i][c]) /\ pre[i][c][1] \in {RangeLo(c), RangeHi(c)})
                        => DataDF[i][c] = pre[i][c]
            /\ \A c \in Cols :
                  ReplacedValuesDF["2. Gross Error"][c] = Cardinality(Lost(pre, DataDF, c))

C2_Witness ==
    /\ pc = "unit02"
    /\ \E i \in DOMAIN DataDF :
          histDF[1][i]["Precip"] = Num(25) /\ DataDF[i]["Precip"] = Num(25)
    /\ \E i \in DOMAIN DataDF :
          histDF[1][i]["Precip"] = Num(0) /\ DataDF[i]["Precip"] = Num(0)
    /\ \E i \in DOMAIN DataDF : \E c \in Cols :
          Present(histDF[1][i][c]) /\ ~Present(DataDF[i][c])
    /\ \E i \in DOMAIN DataDF : \E c \in Cols :
          ~Present(histDF[1][i][c]) /\ ReplacedValuesDF["2. Gross Error"][c] = 0

\* ------------------------------------------------------------------------
\* C3: Check 3 exchanges the two temperatures of every record that has both
\* and has Max Temp < Min Temp, leaves every other record as it was, so that
\* afterwards Max Temp >= Min Temp wherever both are present; the number of
\* exchanged records is written to both temperature cells of row
\* "3. Swapped"; a record with a missing temperature is neither exchanged
\* nor counted.
\* ------------------------------------------------------------------------
C3_Swapped ==
    pc = "unit03" =>
        LET pre == histDF[1]
            sw  == {i \in DOMAIN pre : BothTemps(pre[i]) /\ Spread(pre[i]) < 0}
        IN  /\ DOMAIN DataDF = DOMAIN pre
            /\ \A i \in sw :
                  DataDF[i] = [pre[i] EXCEPT !["Max Temp"] = pre[i]["Min Temp"],
                                             !["Min Temp"] = pre[i]["Max Temp"]]
            /\ \A i \in (DOMAIN pre) \ sw : DataDF[i] = pre[i]
            /\ \A i \in DOMAIN DataDF : BothTemps(DataDF[i]) => Spread(DataDF[i]) >= 0
            /\ ReplacedValuesDF["3. Swapped"]["Max Temp"] = Cardinality(sw)
            /\ ReplacedValuesDF["3. Swapped"]["Min Temp"] = Cardinality(sw)

C3_Witness ==
    /\ pc = "unit03"
    /\ ReplacedValuesDF["3. Swapped"]["Max Temp"] >= 1
    /\ \E i \in DOMAIN DataDF :
          /\ BothTemps(histDF[1][i])
          /\ DataDF[i]["Max Temp"] = histDF[1][i]["Min Temp"]
          /\ DataDF[i]["Max Temp"] # histDF[1][i]["Max Temp"]
    /\ \E i \in DOMAIN DataDF :
          /\ ~Present(histDF[1][i]["Max Temp"])
          /\ Present(histDF[1][i]["Min Temp"])

\* ------------------------------------------------------------------------
\* C4: Check 4 replaces both temperatures with missing in every record that
\* has both and has Max Temp - Min Temp > 25, leaves every other record
\* (spread 25 or less, or a temperature missing) as it was, and writes the
\* number of affected records to both temperature cells of row
\* "4. Range Fail".
\* ------------------------------------------------------------------------
C4_RangeFail ==
    pc = "unit04" =>
        LET pre == histDF[1]
            rf  == {i \in DOMAIN pre : BothTemps(pre[i]) /\ Spread(pre[i]) > 25}
        IN  /\ DOMAIN DataDF = DOMAIN pre
            /\ \A i \in rf :
                  DataDF[i] = [pre[i] EXCEPT !["Max Temp"] = NaN, !["Min Temp"] = NaN]
            /\ \A i \in (DOMAIN pre) \ rf : DataDF[i] = pre[i]
            /\ ReplacedValuesDF["4. Range Fail"]["Max Temp"] = Cardinality(rf)
            /\ ReplacedValuesDF["4. Range Fail"]["Min Temp"] = Cardinality(rf)

C4_Witness ==
    /\ pc = "unit04"
    /\ ReplacedValuesDF["4. Range Fail"]["Min Temp"] >= 1
    /\ \E i \in DOMAIN DataDF :
          BothTemps(histDF[1][i]) /\ ~Present(DataDF[i]["Max Temp"])
                                  /\ ~Present(DataDF[i]["Min Temp"])
    /\ \E i \in DOMAIN DataDF :
          BothTemps(DataDF[i]) /\ Spread(DataDF[i]) = 25

\* ------------------------------------------------------------------------
\* C5: for each check the driver has run, the sum of the ledger row of that
\* check equals the number of cells that differ between the record set
\* before and after the check.
\* ------------------------------------------------------------------------
C5_Reconciliation ==
    \A k \in 2..Len(histDF) :
        RowSum(histRV[k][rowNames[k - 1]]) = Cardinality(Changed(histDF[k - 1], histDF[k]))

\* ------------------------------------------------------------------------
\* C6: the ledger is 4 x 4 and zero-filled when the loader returns it; a
\* check leaves the three rows of the other checks unchanged, and Checks 3
\* and 4 leave the Precip and Wind Speed cells of their own row unchanged.
\* ------------------------------------------------------------------------
OwnRow(p) ==
    CASE p = "check01" -> "1. No Data"
      [] p = "check02" -> "2. Gross Error"
      [] p = "check03" -> "3. Swapped"
      [] p = "check04" -> "4. Range Fail"

C6_LedgerFrame ==
    /\ [](pc = "read" =>
            /\ DOMAIN ReplacedValuesDF = Rows /\ Cardinality(Rows) = 4
            /\ \A r \in Rows :
                  /\ DOMAIN ReplacedValuesDF[r] = Cols /\ Cardinality(Cols) = 4
                  /\ \A c \in Cols : ReplacedValuesDF[r][c] = 0)
    /\ [][/\ \A r \in Rows \ {OwnRow(pc')} : ReplacedValuesDF'[r] = ReplacedValuesDF[r]
          /\ pc' \in {"check03", "check04"} =>
                \A c \in {"Precip", "Wind Speed"} :
                    ReplacedValuesDF'[OwnRow(pc')][c] = ReplacedValuesDF[OwnRow(pc')][c]]_vars

C6_Witness ==
    /\ pc = "check04"
    /\ \E c \in Cols : ReplacedValuesDF["2. Gross Error"][c] >= 1
    /\ ReplacedValuesDF["3. Swapped"]["Max Temp"] >= 1
    /\ ReplacedValuesDF["4. Range Fail"]["Max Temp"] >= 1
    /\ ReplacedValuesDF["4. Range Fail"]["Max Temp"] # ReplacedValuesDF["3. Swapped"]["Max Temp"]

\* ------------------------------------------------------------------------
\* C7: along the driver's pipeline a cell that is missing stays missing
\* through every later check, and so the number of missing entries of every
\* column never decreases from one check to the next.
\* ------------------------------------------------------------------------
C7_MissingMonotone ==
    [][/\ DOMAIN DataDF' = DOMAIN DataDF
       /\ \A i \in DOMAIN DataDF : \A c \in Cols :
             ~Present(DataDF[i][c]) => ~Present(DataDF'[i][c])
       /\ \A c \in Cols : Missing(DataDF', c) >= Missing(DataDF, c)]_vars

C7_Witness ==
    /\ pc = "check04"
    /\ ReplacedValuesDF["3. Swapped"]["Max Temp"] >= 1
    /\ \E i \in DOMAIN DataDF :
          /\ ~Present(histDF[3][i]["Max Temp"])
          /\ Present(histDF[3][i]["Min Temp"])
          /\ DataDF[i] = histDF[3][i]
    /\ \E c \in Cols : Missing(histDF[2], c) > Missing(histDF[1], c)
    /\ \E c \in Cols : Missing(histDF[3], c) > Missing(histDF[2], c)

\* ------------------------------------------------------------------------
\* C8: Check 1 applied a second time, to the record set and ledger the
\* first application returned, leaves the record set unchanged and leaves a
\* zero count for every variable in row "1. No Data".
\* ------------------------------------------------------------------------
C8_Idempotent ==
    pc = "again01" =>
        /\ DataDF = histDF[2]
        /\ \A c \in Cols : ReplacedValuesDF["1. No Data"][c] = 0

C8_Witness ==
    /\ pc = "again01"
    /\ \E i \in DOMAIN DataDF : \E c \in Cols :
          histDF[1][i][c] = Num(-999) /\ histDF[2][i][c] = NaN /\ DataDF[i][c] = NaN
    /\ \E i \in DOMAIN DataDF : \E c \in Cols : Present(DataDF[i][c])

\* ------------------------------------------------------------------------
\* C9: ordering of Check 2 and Check 4.
\* ------------------------------------------------------------------------
\* the records Check 2 removed column t from, and those Check 4 blanked
GrossAt(t) == Lost(histDF[2], histDF[3], t)

RangeFailAt == Lost(histDF[4], histDF[5], "Max Temp") \cup Lost(histDF[4], histDF[5], "Min Temp")

C9_LedgerTies ==
    /\ \A t \in Temps : ReplacedValuesDF["2. Gross Error"][t] = Cardinality(GrossAt(t))
    /\ \A t \in Temps : ReplacedValuesDF["4. Range Fail"][t] = Cardinality(RangeFailAt)

\* C9 as stated: for any record in which a temperature is outside [-25,35],
\* Check 2 makes that temperature missing before Check 4 runs, so the record
\* adds 0 to row "4. Range Fail" and 1 to the "2. Gross Error" cell of that
\* variable, and the other temperature survives the pipeline unchanged.
C9_AsStated ==
    pc = "check04" =>
        /\ C9_LedgerTies
        /\ \A i \in DOMAIN DataDF : \A t \in Temps :
              OutOfRange(t, histDF[1][i][t]) =>
                  /\ i \in GrossAt(t)
                  /\ ~Present(histDF[4][i][t])
                  /\ i \notin RangeFailAt
                  /\ DataDF[i][OtherTemp(t)] = histDF[1][i][OtherTemp(t)]

\* C9 (amended): for any record in which a temperature is present, is not
\* the sentinel -999 and is outside [-25,35], Check 2 makes that temperature
\* missing before Check 4 runs, so the record adds 0 to row "4. Range Fail"
\* and 1 to the "2. Gross Error" cell of that variable; the other
\* temperature, when it is missing or within [-25,35], survives the pipeline
\* unchanged.
C9_Ordering ==
    pc = "check04" =>
        /\ C9_LedgerTies
        /\ \A i \in DOMAIN DataDF : \A t \in Temps :
              (OutOfRange(t, histDF[1][i][t]) /\ histDF[1][i][t] # Num(-999)) =>
                  /\ i \in GrossAt(t)
                  /\ ~Present(histDF[4][i][t])
                  /\ i \notin RangeFailAt
                  /\ ~OutOfRange(OtherTemp(t), histDF[1][i][OtherTemp(t)]) =>
                        DataDF[i][OtherTemp(t)] = histDF[1][i][OtherTemp(t)]

C9_Witness ==
    /\ pc = "check04"
    /\ \E i \in DOMAIN DataDF :
          /\ histDF[1][i]["Max Temp"] = Num(36)
          /\ histDF[1][i]["Min Temp"] = Num(-25)
          /\ DataDF[i]["Min Temp"] = Num(-25)
          /\ ~Present(DataDF[i]["Max Temp"])
    /\ ReplacedValuesDF["2. Gross Error"]["Max Temp"] >= 1
    /\ ReplacedValuesDF["4. Range Fail"]["Max Temp"] = 0
    /\ \E i \in DOMAIN DataDF :
          OutOfRange("Min Temp", histDF[1][i]["Min Temp"]) /\ histDF[1][i]["Min Temp"] # Num(-999)

\* ------------------------------------------------------------------------
\* C10: after the driver has run Checks 1 to 4, every non-missing value lies
\* within the range of its variable and is not -999, every record with both
\* temperatures has 0 <= Max Temp - Min Temp <= 25, and Precip and Wind
\* Speed are as Check 2 left them.
\* ------------------------------------------------------------------------
C10_FinalState ==
    pc = "check04" =>
        /\ \A i \in DOMAIN DataDF : \A c \in Cols :
              Present(DataDF[i][c]) => InRange(c, DataDF[i][c]) /\ DataDF[i][c][1] # -999
        /\ \A i \in DOMAIN DataDF :
              BothTemps(DataDF[i]) => 0 <= Spread(DataDF[i]) /\ Spread(DataDF[i]) <= 25
        /\ \A i \in DOMAIN DataDF : \A c \in {"Precip", "Wind Speed"} :
              /\ histDF[4][i][c] = histDF[3][i][c]
              /\ DataDF[i][c] = histDF[3][i][c]

C10_Witness ==
    /\ pc = "check04"
    /\ \E i \in DOMAIN DataDF : BothTemps(DataDF[i]) /\ Spread(DataDF[i]) = 25
                                  /\ DataDF[i] # histDF[1][i]
    /\ \E i \in DOMAIN DataDF : BothTemps(histDF[4][i]) /\ ~BothTemps(DataDF[i])
    /\ \E i \in DOMAIN DataDF : Present(DataDF[i]["Precip"]) /\ Present(DataDF[i]["Wind Speed"])
====
